---- MODULE Spec2Model ----
(***************************************************************************)
(* A model of the ECG segmentation pipeline of ECG_HRV:                    *)
(*   src/src/segmentation.py      segmentation_ecg, clean_segment,         *)
(*                                remove_short_segments                    *)
(*   src/src/data_preprocessing.py load_data_for_participant,              *)
(*                                load_all_data                            *)
(* Strings are sequences of one-character strings, so that endswith,       *)
(* slicing, split and the f-strings of the code are computed, not assumed. *)
(* A DataFrame is the sequence of its rows; a dict is a function whose     *)
(* DOMAIN is its key set.                                                  *)
(***************************************************************************)
EXTENDS Integers, Sequences, FiniteSets, TLC

VARIABLES
    \* segmentation_ecg
    ecg_df,               \* the signal stream: rows [index, timestamp_ms]
    log_event_df,         \* the event log: rows [events, timestamp_ms]
    pos,                  \* number of entries of `events` the for loop has taken
    condition,            \* the local `condition`
    begin_time,           \* the local `begin_time`, Unbound before line 30 first runs
    end_time,             \* the local `end_time`, Unbound before line 34 or 40 first runs
    order_of_conditions,  \* the local `order_of_conditions`
    segments,             \* the local dict `segments`
    pc,                   \* "loop", "done" (returned), "raised"
    \* remove_short_segments
    all_segments,         \* participant -> segment name -> segment
    cleaned_segments,     \* participant -> method -> segment name -> segment
    min_length,           \* the argument min_length
    segments_in,          \* <<all_segments, cleaned_segments>> as they were passed
    filter_pc,            \* "raw" (first loop next), "cleaned" (second loop next), "done", "idle"
    \* clean_segment
    segment,              \* the argument segment
    method,               \* the argument method
    sampling_rate,        \* the argument sampling_rate
    cleaned_segment,      \* the local cleaned_segment
    rpeaks,               \* the local rpeaks
    calls,                \* the neurokit2 calls made so far, with their arguments
    clean_pc,             \* "entry", "copied", "sanitized", "cleaned", "done", "raised", "idle"
    \* load_all_data
    listing,              \* os.listdir(participants_root_folder) with what each entry holds
    folder_pos,           \* entries the for loop has finished with
    participants_data,    \* keys of the dict participants_data
    participants_subj_data,   \* keys of the dict participants_subj_data
    participants_error_data,  \* keys of the dict participants_error_data
    diagnostics,          \* what has been printed
    load_pc               \* "loop", "done", "ValueError", "UnboundLocalError", "idle"

segVars == <<ecg_df, log_event_df, pos, condition, begin_time, end_time,
            order_of_conditions, segments, pc>>

filterVars == <<all_segments, cleaned_segments, min_length, segments_in, filter_pc>>

cleanVars == <<segment, method, sampling_rate, cleaned_segment, rpeaks, calls, clean_pc>>

loadVars == <<listing, folder_pos, participants_data, participants_subj_data,
             participants_error_data, diagnostics, load_pc>>

vars == <<segVars, filterVars, cleanVars, loadVars>>

----------------------------------------------------------------------------
(* Bounds of the model *)

MaxEvents == 4     \* rows of the event log
MaxTick == 2       \* the log's period and the stream's sample times, in ticks of 30 s
MaxSegLen == 1     \* rows of a segment handed to remove_short_segments or clean_segment
MaxFolders == 2    \* entries of the participants root folder

----------------------------------------------------------------------------
(* Python strings and dicts *)

Min(S) == CHOOSE x \in S : \A y \in S : x <= y

\* mutant: the suffix test lets every event name through
EndsWith_Any(s, suffix) == Len(s) >= 1

\* s.endswith(suffix)
EndsWith(s, suffix) ==
    /\ Len(s) >= Len(suffix)
    /\ SubSeq(s, Len(s) - Len(suffix) + 1, Len(s)) = suffix

\* s[:-n]
DropLast(s, n) == SubSeq(s, 1, Len(s) - n)

\* s.split('_')[0]
SplitFirst(s) ==
    LET us == {i \in 1..Len(s) : s[i] = "_"}
    IN  IF us = {} THEN s ELSE SubSeq(s, 1, Min(us) - 1)

Digits == <<"0", "1", "2", "3", "4", "5", "6", "7", "8", "9">>

\* str(n) of a natural number, as an f-string formats it
RECURSIVE IntToStr(_)
IntToStr(n) ==
    IF n < 10 THEN <<Digits[n + 1]>>
    ELSE IntToStr(n \div 10) \o <<Digits[(n % 10) + 1]>>

\* x in list
InList(x, list) == \E i \in 1..Len(list) : list[i] = x

EmptyDict == [k \in {} |-> <<>>]

\* d[k] = v
DictSet(d, k, v) == [x \in (DOMAIN d) \cup {k} |-> IF x = k THEN v ELSE d[x]]

----------------------------------------------------------------------------
(* The literals of segmentation_ecg *)

S_begin == <<"_", "b", "e", "g", "i", "n">>
S_end == <<"_", "e", "n", "d">>
S_v2 == <<"_", "v", "2">>
S_phase == <<"_", "p", "h", "a", "s", "e", "_">>
S_fixation_cross == <<"f", "i", "x", "a", "t", "i", "o", "n", "_", "c", "r", "o", "s", "s">>
S_C == <<"C">>
S_0B == <<"0", "B">>
S_2B == <<"2", "B">>

condition_prefixes == <<S_C, S_0B, S_2B>>

TrimMs == 30000

\* a local that no assignment has bound yet
Unbound == -1

----------------------------------------------------------------------------
(* pandas operations used by segmentation_ecg *)

\* df['events'].values
EventsColumn(df) == [i \in 1..Len(df) |-> df[i].events]

\* Series.unique(): the distinct values in order of first appearance
RECURSIVE Unique(_)
Unique(s) ==
    IF s = <<>> THEN <<>>
    ELSE LET r == Unique(SubSeq(s, 1, Len(s) - 1))
             x == s[Len(s)]
         IN  IF InList(x, r) THEN r ELSE Append(r, x)

\* name in df['events'].values
HasEvent(df, name) == \E i \in 1..Len(df) : df[i].events = name

\* mutant: .values[-1], the last row of that name
FirstTimestamp_Last(df, name) ==
    df[CHOOSE i \in 1..Len(df) :
          /\ df[i].events = name
          /\ \A j \in 1..Len(df) : df[j].events = name => j <= i].timestamp_ms

\* df[df['events'] == name]['timestamp_ms'].values[0]   (needs HasEvent)
FirstTimestamp(df, name) ==
    df[Min({i \in 1..Len(df) : df[i].events = name})].timestamp_ms

\* mutant: the upper bound excluded
InWindow_StrictEnd(row, b, e) == row.timestamp_ms >= b /\ row.timestamp_ms < e

\* df[(df['timestamp_ms'] >= b) & (df['timestamp_ms'] <= e)]
InWindow(row, b, e) == row.timestamp_ms >= b /\ row.timestamp_ms <= e

TimeSlice(df, b, e) == SelectSeq(df, LAMBDA row : InWindow(row, b, e))

\* pd.concat([a, b])
Concat(a, b) == a \o b

----------------------------------------------------------------------------
(* segmentation_ecg, lines 16-48: the loop over the distinct events *)

events == Unique(EventsColumn(log_event_df))

\* lines 25-26: the candidate condition code after reading event_name
NextCondition(name, cond) ==
    IF Len(SplitFirst(name)) <= 2 THEN SplitFirst(name) ELSE cond

\* mutant: no membership test before the append
NextOrder_NoDedup(cond, order) ==
    IF InList(cond, condition_prefixes) THEN Append(order, cond) ELSE order

\* lines 27-28
NextOrder(cond, order) ==
    IF InList(cond, condition_prefixes) /\ ~InList(cond, order)
    THEN Append(order, cond)
    ELSE order

\* line 31
EndEvent(name) == name \o S_end

\* lines 38-39
EndCondition(name) == SplitFirst(EndEvent(name)) \o S_end

\* mutant: the condition-level end preferred over the same-named end
ResolvedEnd_FallbackFirst(df, name) ==
    IF HasEvent(df, EndCondition(name)) THEN EndCondition(name) ELSE EndEvent(name)

\* lines 33-40: the name of the event whose timestamp ends the segment
ResolvedEnd(df, name) ==
    IF HasEvent(df, EndEvent(name)) THEN EndEvent(name)
    ELSE EndCondition(name)

\* mutant: the end of the window is left untrimmed
TrimmedSlice_EndUntrimmed(df, b, e) == TimeSlice(df, b + TrimMs, e)

\* lines 45-47
TrimmedSlice(df, b, e) ==
    TimeSlice(df, b + TrimMs, e - TrimMs)

\* mutant: the trimmed variant is synthesized in the exact branch as well
ExactStore_WithV2(segs, name, b, e) ==
    LET s1 == DictSet(segs, name, TimeSlice(ecg_df, b, e))
    IN  IF name = S_fixation_cross
        THEN DictSet(s1, name \o S_v2, TrimmedSlice(ecg_df, b, e))
        ELSE s1

\* lines 35-36: what the exact branch stores
ExactStore(segs, name, b, e) == DictSet(segs, name, TimeSlice(ecg_df, b, e))

\* lines 41-48: what the fallback branch stores
FallbackStore(segs, name, b, e) ==
    LET s1 == DictSet(segs, name, TimeSlice(ecg_df, b, e))
    IN  IF name = S_fixation_cross
        THEN DictSet(s1, name \o S_v2, TrimmedSlice(ecg_df, b, e))
        ELSE s1

InLoop == pc = "loop" /\ pos < Len(events)

event == events[pos + 1]

event_name == DropLast(event, 6)

\* line 23 false: the event is not a begin event
NotBeginEvent ==
    /\ InLoop
    /\ ~EndsWith(event, S_begin)
    /\ pos' = pos + 1
    /\ UNCHANGED <<ecg_df, log_event_df, condition, begin_time, end_time,
                   order_of_conditions, segments, pc>>
    /\ UNCHANGED <<filterVars, cleanVars, loadVars>>

\* lines 24-36: the same-named end event is in the log
BeginExactEnd ==
    /\ InLoop
    /\ EndsWith(event, S_begin)
    /\ HasEvent(log_event_df, EndEvent(event_name))
    /\ condition' = NextCondition(event_name, condition)
    /\ order_of_conditions' = NextOrder(condition', order_of_conditions)
    /\ begin_time' = FirstTimestamp(log_event_df, event)
    /\ end_time' = FirstTimestamp(log_event_df, ResolvedEnd(log_event_df, event_name))
    /\ segments' = ExactStore(segments, event_name, begin_time', end_time')
    /\ pos' = pos + 1
    /\ UNCHANGED <<ecg_df, log_event_df, pc>>
    /\ UNCHANGED <<filterVars, cleanVars, loadVars>>

\* lines 24-31, 37-48: no same-named end event, the condition-level end is in the log
BeginFallbackEnd ==
    /\ InLoop
    /\ EndsWith(event, S_begin)
    /\ ~HasEvent(log_event_df, EndEvent(event_name))
    /\ HasEvent(log_event_df, EndCondition(event_name))
    /\ condition' = NextCondition(event_name, condition)
    /\ order_of_conditions' = NextOrder(condition', order_of_conditions)
    /\ begin_time' = FirstTimestamp(log_event_df, event)
    /\ end_time' = FirstTimestamp(log_event_df, ResolvedEnd(log_event_df, event_name))
    /\ segments' = FallbackStore(segments, event_name, begin_time', end_time')
    /\ pos' = pos + 1
    /\ UNCHANGED <<ecg_df, log_event_df, pc>>
    /\ UNCHANGED <<filterVars, cleanVars, loadVars>>

\* lines 24-31, 37-40: neither end event is in the log; `.values[0]` of an
\* empty array raises IndexError, which nothing catches
BeginNoEnd ==
    /\ InLoop
    /\ EndsWith(event, S_begin)
    /\ ~HasEvent(log_event_df, EndEvent(event_name))
    /\ ~HasEvent(log_event_df, EndCondition(event_name))
    /\ condition' = NextCondition(event_name, condition)
    /\ order_of_conditions' = NextOrder(condition', order_of_conditions)
    /\ begin_time' = FirstTimestamp(log_event_df, event)
    /\ pc' = "raised"
    /\ UNCHANGED <<ecg_df, log_event_df, pos, end_time, segments>>
    /\ UNCHANGED <<filterVars, cleanVars, loadVars>>

----------------------------------------------------------------------------
(* segmentation_ecg, lines 50-62: the phase combiner and the return *)

\* f"{prefix}_phase_{phase}"
PhaseName(prefix, phase) == prefix \o S_phase \o IntToStr(phase)

\* mutant: range(start_phase, end_phase)
PhaseRange_Exclusive(start_phase, end_phase) ==
    [k \in 1..(end_phase - start_phase) |-> start_phase + k - 1]

\* range(start_phase, end_phase + 1)
PhaseRange(start_phase, end_phase) == [k \in 1..(end_phase + 1 - start_phase) |-> start_phase + k - 1]

\* lines 50-56
RECURSIVE CombineOver(_, _, _)
CombineOver(segs, prefix, phases) ==
    IF phases = <<>> THEN <<>>
    ELSE LET before == CombineOver(segs, prefix, SubSeq(phases, 1, Len(phases) - 1))
             phase_name == PhaseName(prefix, phases[Len(phases)])
         IN  IF phase_name \in DOMAIN segs THEN Concat(before, segs[phase_name]) ELSE before

combine_phases(segs, prefix, start_phase, end_phase) ==
    CombineOver(segs, prefix, PhaseRange(start_phase, end_phase))

S_dot1 == <<".", "1">>
S_dot2 == <<".", "2">>

\* lines 58-60: one iteration stores both halves (the second reads the dict
\* the first has written)
RECURSIVE CombineAll(_, _)
CombineAll(segs, order) ==
    IF order = <<>> THEN segs
    ELSE LET cond == Head(order)
             s1 == DictSet(segs, cond \o S_dot1, combine_phases(segs, cond, 1, 6))
             s2 == DictSet(s1, cond \o S_dot2, combine_phases(s1, cond, 7, 12))
         IN  CombineAll(s2, Tail(order))

\* lines 58-62
CombineAndReturn ==
    /\ pc = "loop"
    /\ pos = Len(events)
    /\ segments' = CombineAll(segments, order_of_conditions)
    /\ condition' = IF order_of_conditions = <<>> THEN condition
                     ELSE order_of_conditions[Len(order_of_conditions)]
    /\ pc' = "done"
    /\ UNCHANGED <<ecg_df, log_event_df, pos, begin_time, end_time, order_of_conditions>>
    /\ UNCHANGED <<filterVars, cleanVars, loadVars>>

----------------------------------------------------------------------------
(* remove_short_segments, lines 113-145.  An entry of a collection is None *)
(* or a DataFrame; the printing under verbose changes no collection and is *)
(* left out.                                                               *)

None == [none |-> TRUE, rows |-> <<>>]

Frame(rows) == [none |-> FALSE, rows |-> rows]

\* mutant: a segment of exactly min_length rows is deleted too
TooShort_Inclusive(ecg_signal, min_len) ==
    ecg_signal.none \/ Len(ecg_signal.rows) <= min_len

\* lines 131, 140: ecg_signal is None or len(ecg_signal) < min_length
TooShort(ecg_signal, min_len) ==
    ecg_signal.none \/ Len(ecg_signal.rows) < min_len

\* lines 129-132, 138-141: the deletions in one innermost dict
WithoutShort(d, min_len) ==
    [s \in {k \in DOMAIN d : ~TooShort(d[k], min_len)} |-> d[s]]

\* lines 128-132
FilteredRaw(raw, min_len) ==
    [p \in DOMAIN raw |-> WithoutShort(raw[p], min_len)]

\* mutant: a cleaned segment is deleted as well when the raw segment of the
\* same participant and name is gone
FilteredCleaned_Cascade(cleaned, min_len) ==
    [p \in DOMAIN cleaned |->
        [m \in DOMAIN cleaned[p] |->
            [s \in {k \in DOMAIN cleaned[p][m] :
                        /\ ~TooShort(cleaned[p][m][k], min_len)
                        /\ p \in DOMAIN all_segments
                        /\ k \in DOMAIN all_segments[p]} |-> cleaned[p][m][s]]]]

\* lines 136-141
FilteredCleaned(cleaned, min_len) ==
    [p \in DOMAIN cleaned |->
        [m \in DOMAIN cleaned[p] |-> WithoutShort(cleaned[p][m], min_len)]]

\* lines 128-134: the loop over all_segments
FilterRawLoop ==
    /\ filter_pc = "raw"
    /\ all_segments' = FilteredRaw(all_segments, min_length)
    /\ filter_pc' = "cleaned"
    /\ UNCHANGED <<cleaned_segments, min_length, segments_in>>
    /\ UNCHANGED <<segVars, cleanVars, loadVars>>

\* lines 136-145: the loop over cleaned_segments, and the return
FilterCleanedLoop ==
    /\ filter_pc = "cleaned"
    /\ cleaned_segments' = FilteredCleaned(cleaned_segments, min_length)
    /\ filter_pc' = "done"
    /\ UNCHANGED <<all_segments, min_length, segments_in>>
    /\ UNCHANGED <<segVars, cleanVars, loadVars>>

----------------------------------------------------------------------------
(* clean_segment, lines 81-111.  The neurokit2 functions are kept abstract: *)
(* a column records whether it went through signal_sanitize and which      *)
(* ecg_clean method produced it, and `calls` lists every library call with *)
(* the column it was given.                                                *)

Column(values) == [values |-> values, sanitized |-> FALSE, cleaned_by |-> "none"]

DataFrame(col) == [bound |-> TRUE, EcgWaveform |-> col]

\* a local DataFrame no assignment has bound yet
UnboundFrame == [bound |-> FALSE, EcgWaveform |-> Column(<<>>)]

UnboundPeaks ==
    [bound |-> FALSE, signal |-> Column(<<>>), sampling_rate |-> 0,
     method |-> "none", correct_artifacts |-> FALSE]

\* lines 93-101: every key maps to nk.ecg_clean with the method of that name
\* ('neurokit' is ecg_clean's default method)
methods_dict ==
    [k \in {"neurokit", "pantompkins1985", "hamilton2002", "elgendi2010",
            "engzeemod2012", "vg", "biosppy"} |-> [fn |-> "ecg_clean", method |-> k]]

\* nk.signal_sanitize(signal)
signal_sanitize(col) == [col EXCEPT !.sanitized = TRUE]

\* nk.ecg_clean(signal, sampling_rate=sr, method=m)
ecg_clean(col, sr, m) == [col EXCEPT !.cleaned_by = m]

\* nk.ecg_peaks(signal, sr, method='neurokit', correct_artifacts=True)
ecg_peaks(col, sr) ==
    [bound |-> TRUE, signal |-> col, sampling_rate |-> sr,
     method |-> "neurokit", correct_artifacts |-> TRUE]

Call(fn, col, m) == [fn |-> fn, signal |-> col, method |-> m]

\* mutant: the membership test of line 103 is missing
IsSupported_Any(m) == TRUE

\* line 103: method in methods_dict
IsSupported(m) == m \in DOMAIN methods_dict

\* lines 103-104: raise ValueError
CleanRejectMethod ==
    /\ clean_pc = "entry"
    /\ ~IsSupported(method)
    /\ clean_pc' = "raised"
    /\ UNCHANGED <<segment, method, sampling_rate, cleaned_segment, rpeaks, calls>>
    /\ UNCHANGED <<segVars, filterVars, loadVars>>

\* lines 103, 106
CleanCopy ==
    /\ clean_pc = "entry"
    /\ IsSupported(method)
    /\ cleaned_segment' = segment
    /\ clean_pc' = "copied"
    /\ UNCHANGED <<segment, method, sampling_rate, rpeaks, calls>>
    /\ UNCHANGED <<segVars, filterVars, loadVars>>

\* line 107
CleanSanitize ==
    /\ clean_pc = "copied"
    /\ calls' = Append(calls, Call("signal_sanitize", cleaned_segment.EcgWaveform, "none"))
    /\ cleaned_segment' =
         [cleaned_segment EXCEPT !.EcgWaveform = signal_sanitize(cleaned_segment.EcgWaveform)]
    /\ clean_pc' = "sanitized"
    /\ UNCHANGED <<segment, method, sampling_rate, rpeaks>>
    /\ UNCHANGED <<segVars, filterVars, loadVars>>

\* line 108: the transform is given the column of `segment`, the argument
CleanTransform ==
    /\ clean_pc = "sanitized"
    /\ calls' = Append(calls, Call(methods_dict[method].fn, segment.EcgWaveform,
                                   methods_dict[method].method))
    /\ cleaned_segment' =
         [cleaned_segment EXCEPT !.EcgWaveform =
             ecg_clean(segment.EcgWaveform, sampling_rate, methods_dict[method].method)]
    /\ clean_pc' = "cleaned"
    /\ UNCHANGED <<segment, method, sampling_rate, rpeaks>>
    /\ UNCHANGED <<segVars, filterVars, loadVars>>

\* lines 109-111
CleanPeaksAndReturn ==
    /\ clean_pc = "cleaned"
    /\ calls' = Append(calls, Call("ecg_peaks", cleaned_segment.EcgWaveform, "neurokit"))
    /\ rpeaks' = ecg_peaks(cleaned_segment.EcgWaveform, sampling_rate)
    /\ clean_pc' = "done"
    /\ UNCHANGED <<segment, method, sampling_rate, cleaned_segment>>
    /\ UNCHANGED <<segVars, filterVars, loadVars>>

----------------------------------------------------------------------------
(* load_data_for_participant and load_all_data, data_preprocessing.py      *)
(* lines 5-85.  An entry of the root folder is [name, isdir, ecg,          *)
(* log_event, cog_evals, error]: whether it is a directory and which of    *)
(* the four files it holds.                                                *)

\* line 29: ecg_file and os.path.exists(log_event_path) and os.path.exists(cog_evals_path)
HasRequiredFiles(entry) == entry.ecg /\ entry.log_event /\ entry.cog_evals

InFolderLoop == load_pc = "loop" /\ folder_pos < Len(listing)

entry == listing[folder_pos + 1]

\* line 72 false
LoadSkipNonDirectory ==
    /\ InFolderLoop
    /\ ~entry.isdir
    /\ folder_pos' = folder_pos + 1
    /\ UNCHANGED <<listing, participants_data, participants_subj_data,
                   participants_error_data, diagnostics, load_pc>>
    /\ UNCHANGED <<segVars, filterVars, cleanVars>>

\* lines 29-34, 39-50 and 73-79: the four files are there
LoadParticipant ==
    /\ InFolderLoop
    /\ entry.isdir
    /\ HasRequiredFiles(entry)
    /\ entry.error
    /\ participants_data' = participants_data \cup {entry.name}
    /\ participants_subj_data' = participants_subj_data \cup {entry.name}
    /\ participants_error_data' = participants_error_data \cup {entry.name}
    /\ folder_pos' = folder_pos + 1
    /\ UNCHANGED <<listing, diagnostics, load_pc>>
    /\ UNCHANGED <<segVars, filterVars, cleanVars>>

\* lines 29-32, 35-50: without the error file error_df is never bound, and
\* the return of line 50 raises UnboundLocalError
LoadWithoutErrorFile ==
    /\ InFolderLoop
    /\ entry.isdir
    /\ HasRequiredFiles(entry)
    /\ ~entry.error
    /\ diagnostics' = Append(diagnostics, <<"missing error file", entry.name>>)
    /\ load_pc' = "UnboundLocalError"
    /\ UNCHANGED <<listing, folder_pos, participants_data, participants_subj_data,
                   participants_error_data>>
    /\ UNCHANGED <<segVars, filterVars, cleanVars>>

\* lines 51-53 and 73: three values are returned and line 73 unpacks four,
\* which raises ValueError
LoadMissingFiles ==
    /\ InFolderLoop
    /\ entry.isdir
    /\ ~HasRequiredFiles(entry)
    /\ diagnostics' = Append(diagnostics, <<"Missing files", entry.name>>)
    /\ load_pc' = "ValueError"
    /\ UNCHANGED <<listing, folder_pos, participants_data, participants_subj_data,
                   participants_error_data>>
    /\ UNCHANGED <<segVars, filterVars, cleanVars>>

\* lines 81-85
LoadReturn ==
    /\ load_pc = "loop"
    /\ folder_pos = Len(listing)
    /\ load_pc' = "done"
    /\ UNCHANGED <<listing, folder_pos, participants_data, participants_subj_data,
                   participants_error_data, diagnostics>>
    /\ UNCHANGED <<segVars, filterVars, cleanVars>>

----------------------------------------------------------------------------
(* The inputs of segmentation_ecg: an event log and a signal stream.       *)
(* Rows of the log are logged at a regular period of `gap` ticks of 30 s;  *)
(* the stream holds one sample per tick from lo to hi, and the streams     *)
(* drawn start at any tick (or hold no sample) and run to the last tick.   *)

S_fixation == <<"f", "i", "x", "a", "t", "i", "o", "n">>
S_marker == <<"m", "a", "r", "k", "e", "r">>
S_XY == <<"X", "Y">>

E_C_begin == S_C \o S_begin
E_C_end == S_C \o S_end
E_0B_begin == S_0B \o S_begin
E_0B_end == S_0B \o S_end
E_XY_begin == S_XY \o S_begin
E_XY_end == S_XY \o S_end
E_phase_begin(prefix, n) == PhaseName(prefix, n) \o S_begin
E_phase_end(prefix, n) == PhaseName(prefix, n) \o S_end
E_fixation_cross_begin == S_fixation_cross \o S_begin
E_fixation_cross_end == S_fixation_cross \o S_end
E_fixation_begin == S_fixation \o S_begin
E_fixation_end == S_fixation \o S_end

Ticks == 0..MaxTick

LogOf(names, gap) ==
    [i \in 1..Len(names) |-> [events |-> names[i], timestamp_ms |-> (i - 1) * gap * TrimMs]]

StreamOf(lo, hi) ==
    [i \in 1..(hi - lo + 1) |-> [index |-> i - 1, timestamp_ms |-> (lo + i - 1) * TrimMs]]

Streams == {StreamOf(lo, MaxTick) : lo \in 0..(MaxTick + 1)}

FullStream == {StreamOf(0, MaxTick)}

\* The families of logs: the event names a log draws from, the periods and
\* the streams it is paired with.
BoundaryLogs ==
    [names |-> {E_phase_begin(S_C, 1), E_phase_end(S_C, 1), E_C_end, S_marker},
     gaps |-> Ticks, streams |-> Streams]

FixationLogs ==
    [names |-> {E_fixation_cross_begin, E_fixation_cross_end, E_fixation_end, E_fixation_begin},
     gaps |-> Ticks, streams |-> Streams]

ConditionLogs ==
    [names |-> {E_C_begin, E_C_end, E_0B_begin, E_0B_end, E_XY_begin, E_XY_end},
     gaps |-> {1}, streams |-> FullStream]

PhaseLogs ==
    [names |-> {E_phase_begin(S_C, 2), E_phase_begin(S_C, 1), E_phase_begin(S_C, 7),
                E_phase_begin(S_C, 12), E_C_end},
     gaps |-> {1}, streams |-> FullStream]

LogFamilies == {BoundaryLogs, FixationLogs, ConditionLogs, PhaseLogs}

\* segmentation_ecg(ecg_df, log_event_df) is entered: lines 15-20
SegInit ==
    /\ \E fam \in LogFamilies :
         \E k \in 0..MaxEvents :
           \E names \in [1..k -> fam.names] :
             \E gap \in fam.gaps :
               /\ log_event_df = LogOf(names, gap)
               /\ ecg_df \in fam.streams
    /\ pos = 0
    /\ condition = <<>>
    /\ begin_time = Unbound
    /\ end_time = Unbound
    /\ order_of_conditions = <<>>
    /\ segments = EmptyDict
    /\ pc = "loop"

SegIdle(stream) ==
    /\ ecg_df = stream
    /\ log_event_df = <<>>
    /\ pos = 0
    /\ condition = <<>>
    /\ begin_time = Unbound
    /\ end_time = Unbound
    /\ order_of_conditions = <<>>
    /\ segments = EmptyDict
    /\ pc = "idle"

FilterIdle ==
    /\ all_segments = EmptyDict
    /\ cleaned_segments = EmptyDict
    /\ min_length = 0
    /\ segments_in = <<EmptyDict, EmptyDict>>
    /\ filter_pc = "idle"

CleanIdle ==
    /\ segment = UnboundFrame
    /\ method = "none"
    /\ sampling_rate = 0
    /\ cleaned_segment = UnboundFrame
    /\ rpeaks = UnboundPeaks
    /\ calls = <<>>
    /\ clean_pc = "idle"

LoadIdle ==
    /\ listing = <<>>
    /\ folder_pos = 0
    /\ participants_data = {}
    /\ participants_subj_data = {}
    /\ participants_error_data = {}
    /\ diagnostics = <<>>
    /\ load_pc = "idle"

Init == SegInit /\ FilterIdle /\ CleanIdle /\ LoadIdle

Next ==
    \/ NotBeginEvent
    \/ BeginExactEnd
    \/ BeginFallbackEnd
    \/ BeginNoEnd
    \/ CombineAndReturn

Spec == Init /\ [][Next]_vars

----------------------------------------------------------------------------
(* remove_short_segments is called on two collections of segments cut from *)
(* one stream                                                              *)

Participants == {"P01", "P02"}

SegmentNames == {"C.1", "fixation_cross"}

Methods == {"biosppy"}

FilterStream == StreamOf(0, MaxSegLen - 1)

SegmentValues == {None} \cup {Frame(SubSeq(FilterStream, 1, n)) : n \in 0..MaxSegLen}

FilterInit ==
    /\ all_segments \in [Participants -> [SegmentNames -> SegmentValues]]
    /\ cleaned_segments \in [Participants -> [Methods -> [SegmentNames -> SegmentValues]]]
    /\ min_length \in 0..MaxSegLen
    /\ segments_in = <<all_segments, cleaned_segments>>
    /\ filter_pc = "raw"

InitFilter == FilterInit /\ SegIdle(FilterStream) /\ CleanIdle /\ LoadIdle

NextFilter ==
    \/ FilterRawLoop
    \/ FilterCleanedLoop

SpecFilter == InitFilter /\ [][NextFilter]_vars

----------------------------------------------------------------------------
(* clean_segment is called on a segment, a sampling rate and a method name *)

Amplitudes == {0, 1}

Waveforms == UNION {[1..n -> Amplitudes] : n \in 0..MaxSegLen}

MethodNames == (DOMAIN methods_dict) \cup {"foo", "Neurokit"}

SamplingRates == {250, 1000}

CleanInit ==
    /\ segment \in {DataFrame(Column(w)) : w \in Waveforms}
    /\ method \in MethodNames
    /\ sampling_rate \in SamplingRates
    /\ cleaned_segment = UnboundFrame
    /\ rpeaks = UnboundPeaks
    /\ calls = <<>>
    /\ clean_pc = "entry"

InitClean == CleanInit /\ SegIdle(<<>>) /\ FilterIdle /\ LoadIdle

NextClean ==
    \/ CleanRejectMethod
    \/ CleanCopy
    \/ CleanSanitize
    \/ CleanTransform
    \/ CleanPeaksAndReturn

SpecClean == InitClean /\ [][NextClean]_vars

----------------------------------------------------------------------------
(* load_all_data is called on a root folder of at most MaxFolders entries  *)

EntryKinds ==
    {[isdir |-> FALSE, ecg |-> FALSE, log_event |-> FALSE, cog_evals |-> FALSE, error |-> FALSE]}
    \cup [isdir : {TRUE}, ecg : BOOLEAN, log_event : BOOLEAN, cog_evals : BOOLEAN, error : BOOLEAN]

ListingOf(kinds) ==
    [i \in 1..Len(kinds) |->
        [name |-> i, isdir |-> kinds[i].isdir, ecg |-> kinds[i].ecg,
         log_event |-> kinds[i].log_event, cog_evals |-> kinds[i].cog_evals,
         error |-> kinds[i].error]]

LoadInit ==
    /\ \E n \in 0..MaxFolders : \E kinds \in [1..n -> EntryKinds] : listing = ListingOf(kinds)
    /\ folder_pos = 0
    /\ participants_data = {}
    /\ participants_subj_data = {}
    /\ participants_error_data = {}
    /\ diagnostics = <<>>
    /\ load_pc = "loop"

InitLoad == LoadInit /\ SegIdle(<<>>) /\ FilterIdle /\ CleanIdle

NextLoad ==
    \/ LoadSkipNonDirectory
    \/ LoadParticipant
    \/ LoadWithoutErrorFile
    \/ LoadMissingFiles
    \/ LoadReturn

SpecLoad == InitLoad /\ [][NextLoad]_vars

----------------------------------------------------------------------------
(* Vocabulary of the properties, stated on the log and the stream alone *)

IsBeginEvent(e) == Len(e) >= 6 /\ SubSeq(e, Len(e) - 5, Len(e)) = <<"_", "b", "e", "g", "i", "n">>

\* X of the event X_begin
StemOf(e) == SubSeq(e, 1, Len(e) - 6)

RowsNamed(name) == {i \in 1..Len(log_event_df) : log_event_df[i].events = name}

InLog(name) == RowsNamed(name) # {}

\* the timestamp of the first row of the log with that name
TimeOfFirst(name) ==
    log_event_df[CHOOSE i \in RowsNamed(name) : \A j \in RowsNamed(name) : i <= j].timestamp_ms

\* the part of a name before its first underscore
LeadingToken(e) ==
    IF \E i \in 1..Len(e) : e[i] = "_"
    THEN SubSeq(e, 1, (CHOOSE i \in 1..Len(e) : e[i] = "_" /\ \A j \in 1..(i - 1) : e[j] # "_") - 1)
    ELSE e

ExactEndOf(e) == StemOf(e) \o <<"_", "e", "n", "d">>

LeadingEndOf(e) == LeadingToken(StemOf(e)) \o <<"_", "e", "n", "d">>

\* the end event of the begin event e: X_end when logged, else <leading token>_end
ClaimedEndOf(e) == IF InLog(ExactEndOf(e)) THEN ExactEndOf(e) ELSE LeadingEndOf(e)

Resolvable(e) == InLog(ExactEndOf(e)) \/ InLog(LeadingEndOf(e))

\* seg holds exactly the rows of the stream with b <= timestamp_ms <= e, in stream order
IsWindowOf(seg, b, e) ==
    /\ \A k \in 1..Len(seg) :
         /\ \E i \in 1..Len(ecg_df) : ecg_df[i] = seg[k]
         /\ b <= seg[k].timestamp_ms /\ seg[k].timestamp_ms <= e
    /\ \A i \in 1..Len(ecg_df) :
         (b <= ecg_df[i].timestamp_ms /\ ecg_df[i].timestamp_ms <= e)
            => \E k \in 1..Len(seg) : seg[k] = ecg_df[i]
    /\ \A k, l \in 1..Len(seg) : k < l => seg[k].index < seg[l].index

\* the distinct events the loop has finished with
Processed == 1..pos

----------------------------------------------------------------------------
\* C3: for every begin event whose end time is resolved, the segment stored
\* under the event name holds exactly the samples of the stream with
\* begin_time <= timestamp_ms <= end_time (both inclusive), in stream order;
\* it is empty when no sample is in the range.
C3_SegmentIsInclusiveWindow ==
    \A i \in Processed :
        IsBeginEvent(events[i]) =>
            /\ StemOf(events[i]) \in DOMAIN segments
            /\ IsWindowOf(segments[StemOf(events[i])],
                          TimeOfFirst(events[i]), TimeOfFirst(ClaimedEndOf(events[i])))

\* a returned collection with a segment that starts on its begin time, ends
\* on its end time and leaves a sample out, and with an empty segment cut
\* from a non-empty stream
C3_Witness ==
    /\ pc = "done"
    /\ \E i \in Processed :
         /\ IsBeginEvent(events[i])
         /\ LET seg == segments[StemOf(events[i])]
            IN  /\ seg # <<>>
                /\ Len(seg) < Len(ecg_df)
                /\ seg[1].timestamp_ms = TimeOfFirst(events[i])
                /\ seg[Len(seg)].timestamp_ms = TimeOfFirst(ClaimedEndOf(events[i]))
                /\ seg[1].timestamp_ms < seg[Len(seg)].timestamp_ms
    /\ \E i \in Processed :
         /\ IsBeginEvent(events[i])
         /\ segments[StemOf(events[i])] = <<>>
         /\ ecg_df # <<>>

\* C4: the end time of X_begin is the timestamp of X_end when X_end is in
\* the log, and the timestamp of <leading token of X>_end only when it is not.
C4_EndTimeResolution ==
    (pos >= 1 /\ IsBeginEvent(events[pos])) =>
        end_time = (IF InLog(ExactEndOf(events[pos]))
                    THEN TimeOfFirst(ExactEndOf(events[pos]))
                    ELSE TimeOfFirst(LeadingEndOf(events[pos])))

\* both end events are in the log at different times and the same-named one won
C4_Witness ==
    /\ pos >= 1
    /\ IsBeginEvent(events[pos])
    /\ InLog(ExactEndOf(events[pos]))
    /\ InLog(LeadingEndOf(events[pos]))
    /\ TimeOfFirst(ExactEndOf(events[pos])) # TimeOfFirst(LeadingEndOf(events[pos]))
    /\ end_time = TimeOfFirst(ExactEndOf(events[pos]))

\* C5: a begin event with neither end event in the log produces no segment,
\* raises no error, and the segments of the other events are still produced.
C5_MissingBoundarySkipped ==
    /\ pc # "raised"
    /\ pc = "done" =>
         \A i \in 1..Len(events) :
             IsBeginEvent(events[i]) =>
                 (StemOf(events[i]) \in DOMAIN segments <=> Resolvable(events[i]))

\* C6: a synthesized fixation_cross_v2 holds exactly the samples with
\* begin + 30000 <= timestamp_ms <= end - 30000 of fixation_cross, and is
\* empty when the trimmed end is below the trimmed begin.
C6_TrimmedWindow ==
    LET v2 == <<"f", "i", "x", "a", "t", "i", "o", "n", "_", "c", "r", "o", "s", "s", "_", "v", "2">>
        b == TimeOfFirst(E_fixation_cross_begin) + 30000
        e == TimeOfFirst(ClaimedEndOf(E_fixation_cross_begin)) - 30000
    IN  v2 \in DOMAIN segments =>
            /\ IsWindowOf(segments[v2], b, e)
            /\ e < b => segments[v2] = <<>>

\* a trimmed segment that is not empty and shorter than the untrimmed one
C6_Witness ==
    /\ pc = "done"
    /\ (S_fixation_cross \o S_v2) \in DOMAIN segments
    /\ segments[S_fixation_cross \o S_v2] # <<>>
    /\ Len(segments[S_fixation_cross \o S_v2]) < Len(segments[S_fixation_cross])

\* the distinct events whose condition code the loop has read
Scanned == IF pc = "raised" THEN 1..(pos + 1) ELSE 1..pos

FirstBeginOf(code) ==
    CHOOSE i \in Scanned :
        /\ IsBeginEvent(events[i]) /\ LeadingToken(events[i]) = code
        /\ \A j \in Scanned :
             (IsBeginEvent(events[j]) /\ LeadingToken(events[j]) = code) => i <= j

\* C7: the condition order is the list of the codes of {C, 0B, 2B} that are
\* the leading token of a begin event, in order of first occurrence, without
\* duplicates; other begin events add nothing.
C7_ConditionOrder ==
    /\ \A code \in {<<"C">>, <<"0", "B">>, <<"2", "B">>} :
         InList(code, order_of_conditions)
            <=> \E i \in Scanned : IsBeginEvent(events[i]) /\ LeadingToken(events[i]) = code
    /\ \A k \in 1..Len(order_of_conditions) :
         order_of_conditions[k] \in {<<"C">>, <<"0", "B">>, <<"2", "B">>}
    /\ \A k, l \in 1..Len(order_of_conditions) :
         k < l => /\ order_of_conditions[k] # order_of_conditions[l]
                  /\ FirstBeginOf(order_of_conditions[k]) < FirstBeginOf(order_of_conditions[l])

\* a returned run that met 0B before C
C7_Witness ==
    /\ pc = "done"
    /\ order_of_conditions = <<S_0B, S_C>>

PhaseLiteral ==
    << <<"1">>, <<"2">>, <<"3">>, <<"4">>, <<"5">>, <<"6">>, <<"7">>, <<"8">>, <<"9">>,
       <<"1", "0">>, <<"1", "1">>, <<"1", "2">> >>

PhaseKey(code, k) == code \o <<"_", "p", "h", "a", "s", "e", "_">> \o PhaseLiteral[k]

\* the segments code_phase_lo .. code_phase_hi that are present, joined in ascending order
RECURSIVE JoinedPhases(_, _, _)
JoinedPhases(code, lo, hi) ==
    IF lo > hi THEN <<>>
    ELSE (IF PhaseKey(code, lo) \in DOMAIN segments THEN segments[PhaseKey(code, lo)] ELSE <<>>)
         \o JoinedPhases(code, lo + 1, hi)

\* C8: for every condition of the condition order the result holds
\* <condition>.1, the ascending join of the present phases 1..6, and
\* <condition>.2, the same for the phases 7..12; an absent phase adds nothing.
C8_PhaseHalves ==
    pc = "done" =>
        \A k \in 1..Len(order_of_conditions) :
            LET code == order_of_conditions[k]
            IN  /\ (code \o <<".", "1">>) \in DOMAIN segments
                /\ (code \o <<".", "2">>) \in DOMAIN segments
                /\ segments[code \o <<".", "1">>] = JoinedPhases(code, 1, 6)
                /\ segments[code \o <<".", "2">>] = JoinedPhases(code, 7, 12)

\* phase 2 is logged before phase 1 and both are joined in phase order;
\* phase 12 alone makes the second half, phase 7 being absent
C8_Witness ==
    /\ pc = "done"
    /\ log_event_df # <<>>
    /\ log_event_df[1].events = E_phase_begin(S_C, 2)
    /\ {PhaseKey(S_C, 1), PhaseKey(S_C, 2), PhaseKey(S_C, 12)} \subseteq DOMAIN segments
    /\ PhaseKey(S_C, 7) \notin DOMAIN segments
    /\ segments[PhaseKey(S_C, 1)] # <<>>
    /\ segments[PhaseKey(S_C, 1)] # segments[PhaseKey(S_C, 2)]
    /\ segments[S_C \o S_dot1] = segments[PhaseKey(S_C, 1)] \o segments[PhaseKey(S_C, 2)]
    /\ segments[S_C \o S_dot2] = segments[PhaseKey(S_C, 12)]
    /\ segments[S_C \o S_dot2] # <<>>

----------------------------------------------------------------------------
\* an entry that is not None and has at least min_length rows
LongEnough(v) == ~v.none /\ Len(v.rows) >= min_length

\* C1: after remove_short_segments the entries of each collection are
\* exactly the entries that were not None and had at least min_length rows
\* before the call (a count equal to min_length is kept), every kept entry
\* is the segment that was passed, and the signal stream is as it was.
C1_FilterKeepsExactlyLongEnough ==
    filter_pc = "done" =>
        LET raw == segments_in[1]
            cleaned == segments_in[2]
        IN  /\ DOMAIN all_segments = DOMAIN raw
            /\ \A p \in DOMAIN raw :
                 /\ DOMAIN all_segments[p] = {s \in DOMAIN raw[p] : LongEnough(raw[p][s])}
                 /\ \A s \in DOMAIN all_segments[p] : all_segments[p][s] = raw[p][s]
            /\ DOMAIN cleaned_segments = DOMAIN cleaned
            /\ \A p \in DOMAIN cleaned :
                 /\ DOMAIN cleaned_segments[p] = DOMAIN cleaned[p]
                 /\ \A m \in DOMAIN cleaned[p] :
                      /\ DOMAIN cleaned_segments[p][m]
                            = {s \in DOMAIN cleaned[p][m] : LongEnough(cleaned[p][m][s])}
                      /\ \A s \in DOMAIN cleaned_segments[p][m] :
                           cleaned_segments[p][m][s] = cleaned[p][m][s]
            /\ ecg_df = FilterStream

\* a call that kept a raw segment of exactly min_length rows, deleted a
\* shorter one and a None one, and both kept and deleted cleaned segments
C1_Witness ==
    /\ filter_pc = "done"
    /\ min_length >= 1
    /\ \E p \in Participants, s \in SegmentNames :
         /\ s \in DOMAIN all_segments[p]
         /\ Len(all_segments[p][s].rows) = min_length
    /\ \E p \in Participants, s \in SegmentNames :
         /\ s \notin DOMAIN all_segments[p]
         /\ ~segments_in[1][p][s].none
    /\ \E p \in Participants, s \in SegmentNames :
         /\ s \notin DOMAIN all_segments[p]
         /\ segments_in[1][p][s].none
    /\ \E p \in Participants, m \in Methods :
         /\ DOMAIN cleaned_segments[p][m] # {}
         /\ DOMAIN cleaned_segments[p][m] # SegmentNames

\* C2: the two collections are filtered independently: the loop over one
\* collection leaves the other as it is, and an entry survives it exactly
\* when that entry itself is long enough, whatever became of the entry of
\* the same participant and name in the other collection.
C2_IndependentFiltering ==
    [][ /\ filter_pc = "raw" =>
             /\ cleaned_segments' = cleaned_segments
             /\ \A p \in DOMAIN all_segments : \A s \in DOMAIN all_segments[p] :
                  s \in DOMAIN all_segments'[p] <=> LongEnough(all_segments[p][s])
        /\ filter_pc = "cleaned" =>
             /\ all_segments' = all_segments
             /\ \A p \in DOMAIN cleaned_segments : \A m \in DOMAIN cleaned_segments[p] :
                  \A s \in DOMAIN cleaned_segments[p][m] :
                      s \in DOMAIN cleaned_segments'[p][m]
                          <=> LongEnough(cleaned_segments[p][m][s])
      ]_vars

\* a raw segment was deleted while the cleaned segment of the same name
\* stayed, and for another name the reverse
C2_Witness ==
    /\ filter_pc = "done"
    /\ \E p \in Participants, m \in Methods, s \in SegmentNames :
         /\ s \notin DOMAIN all_segments[p]
         /\ s \in DOMAIN cleaned_segments[p][m]
    /\ \E p \in Participants, m \in Methods, s \in SegmentNames :
         /\ s \in DOMAIN all_segments[p]
         /\ s \notin DOMAIN cleaned_segments[p][m]

\* C9: with a method name outside the seven supported ones clean_segment
\* raises before any sanitizing, cleaning or peak detection is called,
\* returns no cleaned segment and leaves the input segment as it was.
C9_UnsupportedMethodRaises ==
    method \notin {"neurokit", "pantompkins1985", "hamilton2002", "elgendi2010",
                   "engzeemod2012", "vg", "biosppy"} =>
        /\ clean_pc \in {"entry", "raised"}
        /\ calls = <<>>
        /\ ~cleaned_segment.bound
        /\ ~rpeaks.bound
        /\ ~segment.EcgWaveform.sanitized
        /\ segment.EcgWaveform.cleaned_by = "none"

\* the call with method "foo" has raised
C9_Witness ==
    /\ clean_pc = "raised"
    /\ method = "foo"
    /\ segment.EcgWaveform.values # <<>>

LacksRequiredFile(e) == e.isdir /\ ~(e.ecg /\ e.log_event /\ e.cog_evals)

HoldsEveryFile(e) == e.isdir /\ e.ecg /\ e.log_event /\ e.cog_evals /\ e.error

\* C10: when the root folder holds several participant folders and one of
\* them lacks a required file, that participant is skipped with a diagnostic
\* and is absent from the returned participant data, while every other
\* participant is loaded; the batch is never aborted.
C10_MissingFilesSkipped ==
    (\E i, j \in 1..Len(listing) :
        i # j /\ LacksRequiredFile(listing[i]) /\ HoldsEveryFile(listing[j]))
    =>  /\ load_pc # "ValueError"
        /\ load_pc = "done" =>
             /\ participants_data
                   = {listing[i].name : i \in {j \in 1..Len(listing) : HoldsEveryFile(listing[j])}}
             /\ \A i \in 1..Len(listing) :
                  LacksRequiredFile(listing[i])
                     => \E d \in 1..Len(diagnostics) : diagnostics[d][2] = listing[i].name

\* C11: for a supported method the three steps run in the order sanitize,
\* clean, detect peaks, as a pipeline: the cleaning transform is given the
\* sanitized amplitudes, and peak detection (artifact correction enabled)
\* is given the output of the cleaning transform.
C11_SanitizeCleanDetectPipeline ==
    clean_pc = "done" =>
        /\ Len(calls) = 3
        /\ calls[1].fn = "signal_sanitize"
        /\ calls[2].fn = "ecg_clean"
        /\ calls[2].method = method
        /\ calls[3].fn = "ecg_peaks"
        /\ calls[2].signal.sanitized
        /\ calls[3].signal.cleaned_by = method
        /\ rpeaks.bound /\ rpeaks.correct_artifacts
        /\ rpeaks.signal = cleaned_segment.EcgWaveform

FixationV2Key ==
    <<"f", "i", "x", "a", "t", "i", "o", "n", "_", "c", "r", "o", "s", "s", "_", "v", "2">>

\* C12: the result holds the key fixation_cross_v2 if and only if
\* fixation_cross_begin is in the log and its end was resolved through the
\* fallback (no fixation_cross_end in the log); paired with an exact
\* fixation_cross_end, fixation_cross_begin creates no fixation_cross_v2.
C12_TrimmedVariantOnlyOnFallback ==
    pc = "done" =>
        (FixationV2Key \in DOMAIN segments
            <=> /\ InLog(E_fixation_cross_begin)
                /\ ~InLog(E_fixation_cross_end)
                /\ InLog(LeadingEndOf(E_fixation_cross_begin)))

\* a returned run whose log pairs fixation_cross_begin with fixation_cross_end,
\* holds fixation_end as well, and has no trimmed variant
C12_Witness ==
    /\ pc = "done"
    /\ InLog(E_fixation_cross_begin)
    /\ InLog(E_fixation_cross_end)
    /\ InLog(E_fixation_end)
    /\ S_fixation_cross \in DOMAIN segments
    /\ segments[S_fixation_cross] # <<>>
    /\ FixationV2Key \notin DOMAIN segments

\* C13: an event whose name does not end in _begin creates no segment: every
\* key of the collection is the name of a begin event of the log without its
\* _begin suffix, fixation_cross_v2, or <condition>.1 / <condition>.2 for a
\* condition of the condition order.
C13_KeysComeFromBeginEvents ==
    \A key \in DOMAIN segments :
        \/ \E i \in 1..Len(log_event_df) :
              /\ IsBeginEvent(log_event_df[i].events)
              /\ key = StemOf(log_event_df[i].events)
        \/ key = FixationV2Key
        \/ \E k \in 1..Len(order_of_conditions) :
              \/ key = order_of_conditions[k] \o <<".", "1">>
              \/ key = order_of_conditions[k] \o <<".", "2">>

\* a returned collection of one segment from a log that also holds an end
\* event and a marker that is neither a begin nor an end event
C13_Witness ==
    /\ pc = "done"
    /\ InLog(S_marker)
    /\ InLog(E_phase_end(S_C, 1))
    /\ InLog(E_phase_begin(S_C, 1))
    /\ DOMAIN segments = {PhaseKey(S_C, 1), S_C \o S_dot1, S_C \o S_dot2}

\* C14: an event name that occurs more than once is processed once, and its
\* segment is bounded by the timestamp of the first row named as the begin
\* event and the timestamp of the first row named as the resolved end event;
\* later rows of either name change nothing.
C14_FirstOccurrenceBounds ==
    LET ev == events
        names == {log_event_df[r].events : r \in 1..Len(log_event_df)}
    IN  /\ \A i, j \in 1..Len(ev) : i # j => ev[i] # ev[j]
        /\ Len(ev) = Cardinality(names)
        /\ pos <= Len(ev)
        /\ (pc # "raised" /\ pos >= 1 /\ IsBeginEvent(ev[pos])) =>
             LET b == ev[pos]
                 e == ClaimedEndOf(b)
             IN  /\ \A r \in RowsNamed(b) : (\A q \in RowsNamed(b) : r <= q)
                        => begin_time = log_event_df[r].timestamp_ms
                 /\ \A r \in RowsNamed(e) : (\A q \in RowsNamed(e) : r <= q)
                        => end_time = log_event_df[r].timestamp_ms
                 /\ IsWindowOf(segments[StemOf(b)], begin_time, end_time)

\* the begin event and its end event are both logged twice, at different
\* times, and the segment stored runs from the first to the first
C14_Witness ==
    /\ pos >= 1
    /\ pc = "loop"
    /\ IsBeginEvent(events[pos])
    /\ \E r, q \in RowsNamed(events[pos]) :
         r < q /\ log_event_df[r].timestamp_ms < log_event_df[q].timestamp_ms
    /\ \E r, q \in RowsNamed(ClaimedEndOf(events[pos])) :
         r < q /\ log_event_df[r].timestamp_ms < log_event_df[q].timestamp_ms
    /\ StemOf(events[pos]) \in DOMAIN segments
    /\ segments[StemOf(events[pos])] # <<>>

====
